---- MODULE Spec2Model ----
(***************************************************************************)
(* Memory Palace (src/main.py): the SQLite data layer (class DB), the      *)
(* practice_generator and the practice controls of MemoryPalaceApp.        *)
(*                                                                         *)
(* Python's None is modelled by 0 for identifiers (SQLite row ids start at *)
(* 1) and by the record None_gen for the practice_gen attribute.           *)
(***************************************************************************)
EXTENDS Integers, Sequences, FiniteSets, TLC

\* ---------------------------------------------------------------- bounds
MaxRoomId == 2
MaxItemId == 2
MaxEvents == 3
MaxRounds == 2

Names == {"a", "b"}

None == 0

VARIABLES
  rooms,            \* table rooms: set of [id, name]
  items,            \* table items in rowid order: sequence of [id, room_id]
  progress,         \* table progress in rowid order: sequence of item_id
  nextRoomId,       \* AUTOINCREMENT counter of rooms
  nextItemId,       \* AUTOINCREMENT counter of items
  sel,              \* rooms_listbox.curselection(): a room id, or None
  current_room_id,  \* MemoryPalaceApp.current_room_id
  practice_gen,     \* MemoryPalaceApp.practice_gen
  canvas,           \* id of the item the canvas shows as "practice", or None
  lastOp,           \* history: the last practice control and its outcome
  sess,             \* history: scope and deliveries of the session in progress
  gen,              \* a generator held by a direct caller of practice_generator
  trace             \* history of that generator's pulls

dbvars == <<rooms, items, progress, nextRoomId, nextItemId>>
appvars == <<sel, current_room_id, practice_gen, canvas, lastOp, sess>>
genvars == <<gen, trace>>
vars == <<dbvars, appvars, genvars>>

\* ------------------------------------------------------------ data layer
\* FOREIGN KEY ... ON DELETE CASCADE is declared, but the connection never
\* runs PRAGMA foreign_keys = ON, so SQLite does not enforce it.
ForeignKeysEnabled == FALSE

RoomIds == {r.id : r \in rooms}

add_room(name) ==
  /\ \A r \in rooms : r.name # name          \* UNIQUE, else IntegrityError
  /\ rooms' = rooms \cup {[id |-> nextRoomId, name |-> name]}
  /\ nextRoomId' = nextRoomId + 1

delete_room(room_id) ==
  /\ rooms' = {r \in rooms : r.id # room_id}
  /\ items' = IF ForeignKeysEnabled
                THEN SelectSeq(items, LAMBDA it : it.room_id # room_id)
                ELSE items

add_item(room_id) ==
  /\ ForeignKeysEnabled => (room_id = None \/ room_id \in RoomIds)
  /\ items' = Append(items, [id |-> nextItemId, room_id |-> room_id])
  /\ nextItemId' = nextItemId + 1

list_items(room_id) ==
  SelectSeq(items, LAMBDA it : room_id # None /\ it.room_id = room_id)

delete_item(item_id) ==
  items' = SelectSeq(items, LAMBDA it : it.id # item_id)

\* mutant: the INSERT executed twice
log_seen_twice(item_id) ==
  progress' = Append(Append(progress, item_id), item_id)

log_seen(item_id) ==
  progress' = Append(progress, item_id)

\* ------------------------------------------------------ practice_generator
StopIteration == [id |-> 0, room_id |-> 0]

None_gen == [pc |-> "None", rooms |-> {}, shuffle |-> FALSE, repeat |-> FALSE,
             items |-> <<>>, sequence |-> <<>>, i |-> 0]

\* mutant: draws with replacement (random.choices) instead of permuting
shuffled_with_replacement(s) ==
  LET n == Len(s)
  IN {[k \in 1..n |-> s[p[k]]] : p \in [1..n -> 1..n]}

\* random.shuffle: any permutation of the list
shuffled(s) ==
  LET n == Len(s)
      P == {p \in [1..n -> 1..n] : \A a, b \in 1..n : p[a] = p[b] => a = b}
  IN {[k \in 1..n |-> s[p[k]]] : p \in P}

\* the SELECT of the generator body; "if rooms:" is false for None and for []
fetch_items(rooms_) ==
  IF rooms_ # {}
    THEN SelectSeq(items, LAMBDA it : it.room_id \in rooms_)
    ELSE items

\* calling practice_generator only creates the generator object
practice_generator(rooms_, shuffle_, repeat_) ==
  [pc |-> "created", rooms |-> rooms_, shuffle |-> shuffle_, repeat |-> repeat_,
   items |-> <<>>, sequence |-> <<>>, i |-> 0]

finished(g) ==
  [g EXCEPT !.pc = "done", !.items = <<>>, !.sequence = <<>>, !.i = 0]

new_round(g, its) ==
  {[g |-> [g EXCEPT !.pc = "yield", !.items = its, !.sequence = sq, !.i = 1],
    out |-> sq[1]] : sq \in (IF g.shuffle THEN shuffled(its) ELSE {its})}

\* mutant: "if not repeat: break" without its condition
gen_next_ignores_repeat(g) ==
  CASE g.pc = "created" ->
         LET its == fetch_items(g.rooms)
         IN IF its = <<>>
              THEN {[g |-> finished(g), out |-> StopIteration]}
              ELSE new_round(g, its)
    [] g.pc = "yield" ->
         IF g.i < Len(g.sequence)
           THEN {[g |-> [g EXCEPT !.i = g.i + 1], out |-> g.sequence[g.i + 1]]}
           ELSE {[g |-> finished(g), out |-> StopIteration]}
    [] OTHER -> {[g |-> g, out |-> StopIteration]}

\* mutant: the SELECT moved inside "while True", run again for every round
gen_next_refetch(g) ==
  CASE g.pc = "created" ->
         LET its == fetch_items(g.rooms)
         IN IF its = <<>>
              THEN {[g |-> finished(g), out |-> StopIteration]}
              ELSE new_round(g, its)
    [] g.pc = "yield" ->
         IF g.i < Len(g.sequence)
           THEN {[g |-> [g EXCEPT !.i = g.i + 1], out |-> g.sequence[g.i + 1]]}
           ELSE IF ~g.repeat \/ fetch_items(g.rooms) = <<>>
                  THEN {[g |-> finished(g), out |-> StopIteration]}
                  ELSE new_round(g, fetch_items(g.rooms))
    [] OTHER -> {[g |-> g, out |-> StopIteration]}

\* next(g): the possible pairs of the generator afterwards and the value
\* yielded (StopIteration when the generator returns)
gen_next(g) ==
  CASE g.pc = "created" ->
         LET its == fetch_items(g.rooms)
         IN IF its = <<>>
              THEN {[g |-> finished(g), out |-> StopIteration]}
              ELSE new_round(g, its)
    [] g.pc = "yield" ->
         IF g.i < Len(g.sequence)
           THEN {[g |-> [g EXCEPT !.i = g.i + 1], out |-> g.sequence[g.i + 1]]}
           ELSE IF ~g.repeat
                  THEN {[g |-> finished(g), out |-> StopIteration]}
                  ELSE new_round(g, g.items)
    [] OTHER -> {[g |-> g, out |-> StopIteration]}

\* ------------------------------------------------------------- histories
Ids(s) == {s[k].id : k \in 1..Len(s)}

ScopeIds(room) ==
  {items[k].id : k \in {j \in 1..Len(items) : room = None \/ items[j].room_id = room}}

ScopeOf(rs) ==
  {items[k].id : k \in {j \in 1..Len(items) : rs = {} \/ items[j].room_id \in rs}}

NoSess == [scope |-> {}, delivered |-> <<>>, advances |-> 0, replaced |-> FALSE]
NoOp == [op |-> "none", result |-> "none", item |-> None, before |-> 0, n |-> 0, pulls |-> 0]
NoTrace == [atCall |-> {}, atFirst |-> {}, block |-> <<>>, blocks |-> 0, last |-> "none"]

Init ==
  /\ rooms = {[id |-> 1, name |-> "a"]}
  /\ items = <<[id |-> 1, room_id |-> 1]>>
  /\ progress = <<>>
  /\ nextRoomId = 2
  /\ nextItemId = 2
  /\ sel = None
  /\ current_room_id = None
  /\ practice_gen = None_gen
  /\ canvas = None
  /\ lastOp = NoOp
  /\ sess = NoSess
  /\ gen = None_gen
  /\ trace = NoTrace


\* ----------------------------------------------- room / item operations
\* refresh_rooms empties and refills rooms_listbox, which drops its selection;
\* self.rooms is db.list_rooms() after every change of the table.
on_room_select(r) ==
  /\ r \in RoomIds
  /\ sel' = r
  /\ current_room_id' = r
  /\ canvas' = None                                   \* draw_room
  /\ UNCHANGED <<dbvars, practice_gen, lastOp, sess, genvars>>

\* the dialog and its "ok" button: the dialog itself holds no program state
add_room_dialog(name) ==
  IF name = ""
    THEN UNCHANGED vars                               \* warning, dialog stays
    ELSE /\ IF \E r \in rooms : r.name = name
              THEN UNCHANGED <<rooms, nextRoomId>>    \* IntegrityError caught
              ELSE nextRoomId <= MaxRoomId /\ add_room(name)
         /\ sel' = None                               \* refresh_rooms
         /\ UNCHANGED <<items, progress, nextItemId, current_room_id, practice_gen,
                        canvas, lastOp, sess, genvars>>

delete_selected_room(confirm) ==
  /\ sel # None
  /\ IF confirm
       THEN /\ delete_room(sel)
            /\ current_room_id' = None
            /\ sel' = None                            \* refresh_rooms
            /\ canvas' = None
            /\ UNCHANGED <<progress, nextRoomId, nextItemId, practice_gen,
                           lastOp, sess, genvars>>
       ELSE UNCHANGED vars

\* the dialog and its "ok" button, pressed while current_room_id is the room
\* the dialog was opened for
add_item_dialog(name) ==
  IF current_room_id = None \/ name = ""
    THEN UNCHANGED vars                               \* "select a room first" / warning
    ELSE /\ nextItemId <= MaxItemId
         /\ add_item(current_room_id)
         /\ UNCHANGED <<rooms, progress, nextRoomId, sel, current_room_id,
                        practice_gen, canvas, lastOp, sess, genvars>>

\* items_tree holds list_items(current_room_id) after every refresh_items
delete_selected_item(item_id, confirm) ==
  /\ item_id \in Ids(list_items(current_room_id))
  /\ IF confirm
       THEN /\ delete_item(item_id)
            /\ UNCHANGED <<rooms, progress, nextRoomId, nextItemId, appvars, genvars>>
       ELSE UNCHANGED vars

\* ------------------------------------------------------ practice controls
\* what a practice control leaves behind: the notice or item it produced
Outcome(op, result, item, pulls) ==
  [op |-> op, result |-> result, item |-> item, before |-> Len(progress),
   n |-> 1 - lastOp.n, pulls |-> pulls]

\* mutant: stop only changes the status label
stop_practice_keeps_gen ==
  /\ lastOp' = Outcome("stop_practice", "stopped", None, 0)
  /\ sess' = NoSess
  /\ UNCHANGED <<dbvars, sel, current_room_id, practice_gen, canvas, genvars>>

stop_practice ==
  /\ practice_gen' = None_gen
  /\ lastOp' = Outcome("stop_practice", "stopped", None, 0)
  /\ sess' = NoSess
  /\ UNCHANGED <<dbvars, sel, current_room_id, canvas, genvars>>

\* mutant: a fault of log_seen ends the session
pull_and_show_fault_stops(g, op, s) ==
  \E r \in gen_next(g) :
    IF r.out = StopIteration
      THEN /\ practice_gen' = None_gen
           /\ lastOp' = Outcome(op, "finished", None, Len(s.delivered))
           /\ sess' = NoSess
           /\ UNCHANGED <<progress, canvas>>
      ELSE /\ Len(progress) < MaxEvents
           /\ canvas' = r.out.id
           /\ \E fault \in {"none", "execute", "commit"} :
                /\ IF fault = "execute" THEN UNCHANGED progress ELSE log_seen(r.out.id)
                /\ practice_gen' = IF fault = "none" THEN r.g ELSE None_gen
                /\ sess' = IF fault = "none"
                             THEN [s EXCEPT !.delivered = Append(@, r.out.id),
                                            !.advances = IF op = "next_practice"
                                                           THEN @ + 1 ELSE @]
                             ELSE NoSess
                /\ lastOp' = Outcome(op, IF fault = "none" THEN "item" ELSE "log_fault",
                                     r.out.id, Len(s.delivered) + 1)

\* log_seen can raise in cur.execute, with no row inserted, or in
\* conn.commit, with the row inserted in the connection's open transaction
LogFaults == {"none", "execute", "commit"}

\* the body of next_practice from "it = next(self.practice_gen)" on, run on
\* generator g by handler op; a fault of log_seen leaves the handler by an
\* exception after the canvas was drawn
pull_and_show(g, op, s) ==
  \E r \in gen_next(g) :
    IF r.out = StopIteration
      THEN /\ practice_gen' = None_gen                \* self.stop_practice()
           /\ lastOp' = Outcome(op, "finished", None, Len(s.delivered))
           /\ sess' = NoSess
           /\ UNCHANGED <<progress, canvas>>
      ELSE /\ Len(progress) < MaxEvents
           /\ practice_gen' = r.g
           /\ canvas' = r.out.id
           /\ sess' = [s EXCEPT !.delivered = Append(@, r.out.id),
                                !.advances = IF op = "next_practice" THEN @ + 1 ELSE @]
           /\ \E fault \in LogFaults :
                /\ IF fault = "execute" THEN UNCHANGED progress ELSE log_seen(r.out.id)
                /\ lastOp' = Outcome(op, IF fault = "none" THEN "item" ELSE "log_fault",
                                     r.out.id, Len(s.delivered) + 1)

next_practice ==
  /\ IF practice_gen = None_gen
       THEN /\ lastOp' = Outcome("next_practice", "no_session", None, 0)
            /\ UNCHANGED <<progress, practice_gen, canvas, sess>>
       ELSE pull_and_show(practice_gen, "next_practice", sess)
  /\ UNCHANGED <<rooms, items, nextRoomId, nextItemId, sel, current_room_id, genvars>>

\* mutant: the generator is built with repeat=True
start_practice_repeat ==
  /\ LET rooms_ == IF sel # None THEN {sel} ELSE {}
     IN pull_and_show(practice_generator(rooms_, TRUE, TRUE), "start_practice",
                      [scope |-> ScopeIds(sel), delivered |-> <<>>, advances |-> 0,
                       replaced |-> practice_gen # None_gen])
  /\ UNCHANGED <<rooms, items, nextRoomId, nextItemId, sel, current_room_id, genvars>>

\* mutant: start only builds the generator, without the call of next_practice
start_practice_no_advance ==
  /\ practice_gen' = practice_generator(IF sel # None THEN {sel} ELSE {}, TRUE, FALSE)
  /\ lastOp' = Outcome("start_practice", "started", None, 0)
  /\ sess' = [scope |-> ScopeIds(sel), delivered |-> <<>>, advances |-> 0,
              replaced |-> practice_gen # None_gen]
  /\ UNCHANGED <<dbvars, sel, current_room_id, canvas, genvars>>

\* mutant: start keeps a generator that is already running
start_practice_resumes ==
  /\ LET rooms_ == IF sel # None THEN {sel} ELSE {}
     IN IF practice_gen # None_gen
          THEN pull_and_show(practice_gen, "start_practice",
                             [sess EXCEPT !.replaced = TRUE])
          ELSE pull_and_show(practice_generator(rooms_, TRUE, FALSE), "start_practice",
                             [scope |-> ScopeIds(sel), delivered |-> <<>>, advances |-> 0,
                              replaced |-> FALSE])
  /\ UNCHANGED <<rooms, items, nextRoomId, nextItemId, sel, current_room_id, genvars>>

start_practice ==
  /\ LET rooms_ == IF sel # None THEN {sel} ELSE {}
     IN pull_and_show(practice_generator(rooms_, TRUE, FALSE), "start_practice",
                      [scope |-> ScopeIds(sel), delivered |-> <<>>, advances |-> 0,
                       replaced |-> practice_gen # None_gen])
  /\ UNCHANGED <<rooms, items, nextRoomId, nextItemId, sel, current_room_id, genvars>>

Next ==
  \/ \E r \in RoomIds : on_room_select(r)
  \/ \E name \in Names \cup {""} : add_room_dialog(name)
  \/ \E confirm \in BOOLEAN : delete_selected_room(confirm)
  \/ \E name \in Names \cup {""} : add_item_dialog(name)
  \/ \E it \in 1..MaxItemId, confirm \in BOOLEAN : delete_selected_item(it, confirm)
  \/ start_practice
  \/ stop_practice
  \/ next_practice

Spec == Init /\ [][Next]_vars

\* ------------------------------------- practice_generator called directly
\* A caller other than the window (a script, a test) uses the data layer and
\* the generator through the module's functions.
caller_add_room(name) ==
  /\ nextRoomId <= MaxRoomId
  /\ add_room(name)
  /\ UNCHANGED <<items, progress, nextItemId, appvars, genvars>>

caller_delete_room(room_id) ==
  /\ room_id \in RoomIds
  /\ delete_room(room_id)
  /\ UNCHANGED <<progress, nextRoomId, nextItemId, appvars, genvars>>

caller_add_item(room_id) ==
  /\ room_id \in RoomIds
  /\ nextItemId <= MaxItemId
  /\ add_item(room_id)
  /\ UNCHANGED <<rooms, progress, nextRoomId, appvars, genvars>>

caller_delete_item(item_id) ==
  /\ item_id \in Ids(items)
  /\ delete_item(item_id)
  /\ UNCHANGED <<rooms, progress, nextRoomId, nextItemId, appvars, genvars>>

caller_practice_generator(rooms_, shuffle_, repeat_) ==
  /\ gen' = practice_generator(rooms_, shuffle_, repeat_)
  /\ trace' = [NoTrace EXCEPT !.atCall = ScopeOf(rooms_)]
  /\ UNCHANGED <<dbvars, appvars>>

caller_next ==
  /\ gen # None_gen
  /\ trace.blocks < MaxRounds
  /\ \E r \in gen_next(gen) :
       /\ gen' = r.g
       /\ LET first == IF trace.last = "none" THEN ScopeOf(gen.rooms) ELSE trace.atFirst
              blk == IF Len(trace.block) = Cardinality(first)
                       THEN <<r.out.id>>
                       ELSE Append(trace.block, r.out.id)
          IN trace' = IF r.out = StopIteration
                        THEN [trace EXCEPT !.atFirst = first, !.last = "stop"]
                        ELSE [trace EXCEPT !.atFirst = first, !.last = "yield",
                                           !.block = blk,
                                           !.blocks = IF Len(blk) = Cardinality(first)
                                                        THEN @ + 1 ELSE @]
  /\ UNCHANGED <<dbvars, appvars>>

NextGen ==
  \/ \E name \in Names : caller_add_room(name)
  \/ \E r \in 1..MaxRoomId : caller_delete_room(r)
  \/ \E r \in 1..MaxRoomId : caller_add_item(r)
  \/ \E it \in 1..MaxItemId : caller_delete_item(it)
  \/ \E rs \in SUBSET RoomIds, sh \in BOOLEAN, rp \in BOOLEAN :
       caller_practice_generator(rs, sh, rp)
  \/ caller_next

SpecGen == Init /\ [][NextGen]_vars

\* ================================================================ claims
SeqSet(q) == {q[k] : k \in 1..Len(q)}
NoDup(q) == \A a, b \in 1..Len(q) : q[a] = q[b] => a = b
IsPermOf(q, S) == NoDup(q) /\ SeqSet(q) = S
\* the step was made by a practice control (start, stop or next)
PracticeStep == lastOp'.n # lastOp.n
Delivered(result) == result \in {"item", "log_fault"}

\* C1: a generator with repeat=False over a non-empty item set yields, until
\* it is exhausted, exactly as many elements as the set has, each identifier
\* exactly once (with and without shuffle).
C1_FiniteOnce ==
  (gen # None_gen /\ ~gen.repeat /\ trace.atFirst # {}) =>
     /\ NoDup(trace.block) /\ SeqSet(trace.block) \subseteq trace.atFirst
     /\ trace.blocks <= 1
     /\ trace.blocks = 1 => IsPermOf(trace.block, trace.atFirst)
     /\ trace.last = "stop" => (trace.blocks = 1 /\ gen.pc = "done")
     /\ gen.pc = "done" => trace.last = "stop"

C1_Witness ==
  /\ gen.pc = "done" /\ ~gen.repeat /\ gen.shuffle
  /\ trace.last = "stop"
  /\ Cardinality(trace.atFirst) = 2
  /\ trace.block[1] > trace.block[2]

\* C7: a generator with repeat=True over a non-empty item set is never
\* exhausted, and every block of |items| consecutive pulls is a permutation
\* of the item set.
C7_RepeatRounds ==
  (gen # None_gen /\ gen.repeat /\ trace.atFirst # {}) =>
     /\ trace.last # "stop" /\ gen.pc = "yield"
     /\ NoDup(trace.block) /\ SeqSet(trace.block) \subseteq trace.atFirst
     /\ Len(trace.block) = gen.i
     /\ trace.blocks >= 1 /\ Len(trace.block) = Cardinality(trace.atFirst)
          => IsPermOf(trace.block, trace.atFirst)

C7_Witness ==
  /\ gen.repeat /\ gen.shuffle
  /\ trace.blocks = MaxRounds
  /\ Cardinality(trace.atFirst) = 2

\* C10 as stated: the item set is the one in the store when the generator
\* was constructed; no later change of the store, before the first pull
\* included, changes what is yielded.
C10_FixedAtConstruction ==
  (gen # None_gen /\ trace.last # "none") =>
     /\ SeqSet(trace.block) \subseteq trace.atCall
     /\ (trace.last = "stop" /\ ~gen.repeat) => SeqSet(trace.block) = trace.atCall

\* C10 amended: the item set is the one in the store at the first pull, when
\* the generator body runs its SELECT; changes of the store after the first
\* pull change neither which items are yielded nor their number.
C10_FixedAtFirstPull ==
  (gen # None_gen /\ trace.last # "none") =>
     /\ SeqSet(trace.block) \subseteq trace.atFirst
     /\ gen.pc = "yield" =>
          (Ids(gen.items) = trace.atFirst /\ Len(gen.items) = Cardinality(trace.atFirst)
           /\ IsPermOf([k \in 1..Len(gen.sequence) |-> gen.sequence[k].id], trace.atFirst))
     /\ (trace.last = "stop" /\ ~gen.repeat) => SeqSet(trace.block) = trace.atFirst

C10_Witness ==
  /\ gen.pc = "yield" /\ trace.blocks >= 1
  /\ ScopeOf(gen.rooms) # trace.atFirst
  /\ trace.atCall = trace.atFirst

\* C6: no item references a room that does not exist; delete_room removes
\* the room's items, so they are not in the unscoped listing a practice
\* session is built from.
C6_NoOrphanItems ==
  \A k \in 1..Len(items) : items[k].room_id \in RoomIds

\* C2 as stated: only a successful explicit advance (next_practice) appends
\* a ProgressEvent, exactly one, for the item it returned; start, stop and
\* every other outcome append none.
C2_OnlyAdvanceLogs ==
  /\ (lastOp.op = "next_practice" /\ lastOp.result = "item") =>
        (Len(progress) = lastOp.before + 1 /\ progress[Len(progress)] = lastOp.item)
  /\ (lastOp.op # "next_practice" \/ lastOp.result # "item") =>
        Len(progress) = lastOp.before

\* C2 amended: every pull that delivers an item and whose log_seen succeeds,
\* made by next_practice or by the next_practice call inside start_practice,
\* appends exactly one ProgressEvent, for the delivered item; a pull whose
\* log_seen fails appends at most one, for the delivered item; stop and an
\* idle or exhausted advance append none.
C2_EachDeliveryLogsOnce ==
  /\ lastOp.result = "item" =>
        /\ lastOp.op \in {"next_practice", "start_practice"}
        /\ Len(progress) = lastOp.before + 1
        /\ progress[Len(progress)] = lastOp.item
  /\ lastOp.result = "log_fault" =>
        \/ Len(progress) = lastOp.before
        \/ Len(progress) = lastOp.before + 1 /\ progress[Len(progress)] = lastOp.item
  /\ ~Delivered(lastOp.result) => Len(progress) = lastOp.before

C2_Witness ==
  /\ lastOp.op = "next_practice" /\ lastOp.result = "item"
  /\ Len(sess.delivered) = 2
  /\ progress = sess.delivered

\* C3 as stated: after start on a scope of n items, n explicit advances
\* succeed and the (n+1)-th signals "finished".
C3_NAdvancesThenFinished ==
  [][(PracticeStep /\ lastOp'.result = "finished") =>
        (lastOp'.op = "next_practice" /\ sess.advances = Cardinality(sess.scope))]_vars

\* C3 amended: start_practice makes the first pull itself. On a scope of
\* n >= 1 items exactly n pulls succeed, the one of start_practice and n-1
\* explicit advances, each delivering an item of the scope not delivered
\* before; the n-th explicit advance signals "finished", changes nothing in
\* the store and leaves the controller idle. On an empty scope start_practice
\* itself signals "finished" and leaves the controller idle.
C3_PullsThenFinished ==
  [][PracticeStep =>
       /\ lastOp'.result = "finished" =>
            /\ practice_gen' = None_gen
            /\ UNCHANGED dbvars
            /\ IF lastOp'.op = "start_practice"
                 THEN ScopeIds(sel) = {}
                 ELSE /\ practice_gen # None_gen
                      /\ sess.scope # {}
                      /\ IsPermOf(sess.delivered, sess.scope)
                      /\ sess.advances = Cardinality(sess.scope) - 1
       /\ (lastOp'.op = "next_practice" /\ Delivered(lastOp'.result)) =>
            /\ sess'.scope = sess.scope
            /\ lastOp'.item \in sess.scope \ SeqSet(sess.delivered)
            /\ sess'.delivered = Append(sess.delivered, lastOp'.item)
            /\ sess'.advances = sess.advances + 1
            /\ sess'.advances <= Cardinality(sess.scope) - 1]_vars

C3_Witness ==
  /\ lastOp.op = "next_practice" /\ lastOp.result = "finished"
  /\ lastOp.pulls = 2
  /\ practice_gen = None_gen

\* no practice control has run yet, or the last one stopped the session, found
\* it exhausted or found none
IdleByHistory == lastOp.result \in {"none", "stopped", "finished", "no_session"}

\* C4: an advance while the controller is idle (never started, stopped, or
\* exhausted) gives the "no active session" notice, leaves the controller
\* idle and leaves rooms, items and progress events unchanged.
C4_IdleAdvance ==
  [][(PracticeStep /\ lastOp'.op = "next_practice" /\ IdleByHistory) =>
        /\ practice_gen = None_gen
        /\ lastOp'.result = "no_session"
        /\ practice_gen' = None_gen
        /\ UNCHANGED <<dbvars, canvas, sess>>]_vars

C4_Witness ==
  /\ lastOp.op = "next_practice" /\ lastOp.result = "no_session"
  /\ Len(progress) >= 1
  /\ practice_gen = None_gen

\* C5 as stated: start does not advance; on return nothing was pulled, no
\* item is current and no ProgressEvent was appended.
C5_StartDoesNotAdvance ==
  lastOp.op = "start_practice" =>
     /\ practice_gen.pc = "created"
     /\ lastOp.item = None
     /\ sess.delivered = <<>>
     /\ Len(progress) = lastOp.before

\* C5 amended: start_practice ends with a call of next_practice. On return,
\* if the scope holds an item, the controller is active, exactly one item of
\* the scope was pulled and is shown, and one ProgressEvent for it was
\* appended (at most one if log_seen failed); if the scope is empty, "finished" was
\* signalled, the controller is idle and nothing was appended.
C5_StartPullsFirst ==
  [][(PracticeStep /\ lastOp'.op = "start_practice") =>
        IF ScopeIds(sel) = {}
          THEN /\ lastOp'.result = "finished"
               /\ practice_gen' = None_gen
               /\ UNCHANGED <<progress, canvas>>
          ELSE /\ Delivered(lastOp'.result)
               /\ lastOp'.item \in ScopeIds(sel)
               /\ canvas' = lastOp'.item
               /\ practice_gen'.pc = "yield" /\ practice_gen'.i = 1
               /\ practice_gen'.sequence[1].id = lastOp'.item
               /\ Ids(practice_gen'.items) = ScopeIds(sel)
               /\ sess'.scope = ScopeIds(sel)
               /\ sess'.delivered = <<lastOp'.item>>
               /\ lastOp'.result = "item" => progress' = Append(progress, lastOp'.item)
               /\ lastOp'.result = "log_fault" =>
                    progress' \in {progress, Append(progress, lastOp'.item)}]_vars

C5_Witness ==
  /\ lastOp.op = "start_practice" /\ lastOp.result = "item"
  /\ canvas = lastOp.item
  /\ practice_gen.pc = "yield" /\ practice_gen.i = 1
  /\ Len(practice_gen.items) = 2
  /\ progress = <<lastOp.item>>

\* C8: a failure of the ProgressEvent write during an advance is not fatal:
\* the pulled item is shown, the controller stays active on the same
\* generator, and later advances deliver its remaining items.
C8_LogFaultNonFatal ==
  [][PracticeStep =>
       /\ lastOp'.result = "log_fault" =>
            /\ canvas' = lastOp'.item
            /\ practice_gen'.pc = "yield"
            /\ practice_gen'.sequence[practice_gen'.i].id = lastOp'.item
            /\ UNCHANGED <<rooms, items>>
       /\ (lastOp.result = "log_fault" /\ lastOp'.op = "next_practice") =>
            /\ lastOp'.result # "no_session"
            /\ lastOp'.result = "finished" <=> SeqSet(sess.delivered) = sess.scope
            /\ Delivered(lastOp'.result) =>
                 /\ lastOp'.item \in sess.scope \ SeqSet(sess.delivered)
                 /\ practice_gen'.sequence = practice_gen.sequence
                 /\ practice_gen'.i = practice_gen.i + 1]_vars

C8_Witness ==
  /\ lastOp.op = "next_practice" /\ lastOp.result = "item" /\ lastOp.before = 0
  /\ Len(sess.delivered) = 2
  /\ progress = <<sess.delivered[2]>>

====
